---- MODULE Spec2Model ----
(***************************************************************************)
(* obsidian-tasks (src/src/main.rs): frontmatter extraction, the task      *)
(* predicates, the directory collector and the command dispatch.           *)
(*                                                                         *)
(* Text is a sequence of one-character strings.  Option<T> is a sequence   *)
(* of length at most one: <<>> is None and <<x>> is Some(x).  A calendar   *)
(* date (NaiveDate) is a day number >= 1.                                  *)
(***************************************************************************)
EXTENDS Integers, Sequences, FiniteSets, TLC

VARIABLES
    content,      \* extract_frontmatter: the input text
    result,       \* extract_frontmatter: the returned Option<String>
    epc,          \* extract_frontmatter: "call" before, "ret" after
    ptask,        \* predicates: the Task they are evaluated on
    ptoday,       \* predicates: Local::now().date_naive()
    pres,         \* predicates: the four results
    ppc,          \* predicates: "call" before, "ret" after
    vault_path,   \* main: cli.path
    fs,           \* main: the directories the invocation can see
    pc,           \* main: position in main / collect_tasks / scan_dir
    entries,      \* scan_dir: the entries of the walk still to visit
    tasks,        \* collect_tasks: the tasks vector
    command,      \* main: cli.command
    today,        \* main: Local::now().date_naive() at dispatch
    output,       \* main: what println! wrote
    outcome       \* main: "running", then "ok" (Ok(())) or "failure" (Err)

vars == <<content, result, epc, ptask, ptoday, pres, ppc, vault_path, fs, pc,
          entries, tasks, command, today, output, outcome>>

extractVars == <<content, result, epc>>
predVars == <<ptask, ptoday, pres, ppc>>
mainVars == <<vault_path, fs, pc, entries, tasks, command, today, output, outcome>>

None == <<>>
Some(x) == <<x>>

(***************************************************************************)
(* Bounds                                                                  *)
(***************************************************************************)
MaxLines == 5   \* lines of an input text of extract_frontmatter
MaxDay == 3     \* calendar days 1..MaxDay
MaxFiles == 2   \* files under the two directories together

(***************************************************************************)
(* Text helpers                                                            *)
(***************************************************************************)
RECURSIVE Concat(_)
Concat(ss) == IF ss = <<>> THEN <<>> ELSE Head(ss) \o Concat(Tail(ss))

Marker == <<"-", "-", "-">>

\* char::to_lowercase on the letters the model uses
LowerChar(c) ==
    CASE c = "D" -> "d"
      [] c = "O" -> "o"
      [] c = "N" -> "n"
      [] c = "E" -> "e"
      [] c = "X" -> "x"
      [] c = "M" -> "m"
      [] OTHER -> c

to_lowercase(s) == [i \in 1..Len(s) |-> LowerChar(s[i])]

(***************************************************************************)
(* str::lines(): split at "\n"; a "\r" right before that "\n" goes with    *)
(* it; a last line without "\n" is kept as it is (a bare trailing "\r"     *)
(* included); no empty last line after a final "\n".                       *)
(***************************************************************************)
\* faulty variant: split('\n'), which leaves the "\r" of a "\r\n" ending in the line
StripCrNever(l) == l

StripCr(l) ==
    IF l # <<>> /\ l[Len(l)] = "\r" THEN SubSeq(l, 1, Len(l) - 1) ELSE l

RECURSIVE LinesFrom(_, _)
LinesFrom(s, cur) ==
    IF s = <<>>
    THEN IF cur = <<>> THEN <<>> ELSE <<cur>>
    ELSE IF Head(s) = "\n"
         THEN <<StripCr(cur)>> \o LinesFrom(Tail(s), <<>>)
         ELSE LinesFrom(Tail(s), Append(cur, Head(s)))

Lines(s) == LinesFrom(s, <<>>)

\* [&str]::join("\n")
RECURSIVE Join(_)
Join(ls) ==
    IF ls = <<>> THEN <<>>
    ELSE IF Len(ls) = 1 THEN ls[1]
    ELSE ls[1] \o <<"\n">> \o Join(Tail(ls))

(***************************************************************************)
(* extract_frontmatter.  lines is 1-based here: lines[1] is the code's     *)
(* lines[0], and the code's lines[1..i] is SubSeq(lines, 2, k - 1) for     *)
(* k = i + 1.                                                              *)
(***************************************************************************)
\* faulty variant: the closing marker line leaks into the block (lines[1..=i])
RECURSIVE ScanClosingInclusive(_, _)
ScanClosingInclusive(lines, k) ==
    IF k > Len(lines) THEN None
    ELSE IF lines[k] = Marker THEN Some(Join(SubSeq(lines, 2, k)))
    ELSE ScanClosingInclusive(lines, k + 1)

RECURSIVE ScanClosing(_, _)
ScanClosing(lines, k) ==
    IF k > Len(lines) THEN None
    ELSE IF lines[k] = Marker THEN Some(Join(SubSeq(lines, 2, k - 1)))
    ELSE ScanClosing(lines, k + 1)

extract_frontmatter(c) ==
    LET lines == Lines(c)
    IN  IF lines = <<>> \/ lines[1] # Marker THEN None
        ELSE ScanClosing(lines, 2)

(***************************************************************************)
(* Input texts of extract_frontmatter: up to MaxLines line bodies, each    *)
(* followed by "\n" except, possibly, the last.                            *)
(***************************************************************************)
Bodies ==
    { Marker, <<"a">>, <<"b">>, <<>>,
      Marker \o <<" ">>, Marker \o <<"\t">>, Marker \o <<"\r">> }

Text(bodies, closed) ==
    Concat([i \in 1..Len(bodies) |->
              IF i < Len(bodies) \/ closed THEN bodies[i] \o <<"\n">> ELSE bodies[i]])

Contents ==
    { Text(bs, cl) : bs \in UNION { [1..n -> Bodies] : n \in 0..MaxLines },
                     cl \in BOOLEAN }

(***************************************************************************)
(* struct Task (the fields no predicate or identity reads, priority, tags, *)
(* projects and taskSourceType, are passed through and left out).          *)
(***************************************************************************)
Days == 1..MaxDay
OptDays == {None} \cup {Some(d) : d \in Days}

sDone == <<"d", "o", "n", "e">>
sCompleted == <<"c", "o", "m", "p", "l", "e", "t", "e", "d">>
sX == <<"x">>
sTodo == <<"t", "o", "d", "o">>

Task(fn, st, dc, du, cd) ==
    [filename |-> fn, status |-> st, date_created |-> dc, due |-> du,
     completed_date |-> cd]

is_done(t) ==
    LET s == to_lowercase(t.status)
    IN  s = sDone \/ s = sCompleted \/ s = sX

\* now is Local::now().date_naive(), which the code reads inside the call
is_due_today(t, now) ==
    IF t.due # None THEN t.due[1] = now ELSE FALSE

\* faulty variant: the status is not consulted
is_overdue_ignoring_done(t, now) ==
    IF t.due # None THEN t.due[1] < now ELSE FALSE

\* faulty variant: <= for <
is_overdue_inclusive(t, now) ==
    IF t.due # None THEN ~is_done(t) /\ t.due[1] <= now ELSE FALSE

is_overdue(t, now) ==
    IF t.due # None THEN ~is_done(t) /\ t.due[1] < now ELSE FALSE

is_completed_today(t, now) ==
    IF t.completed_date # None THEN t.completed_date[1] = now ELSE FALSE

(***************************************************************************)
(* Inputs of the predicates                                                *)
(***************************************************************************)
Statuses ==
    { sDone, <<"D", "o", "n", "e">>, <<"D", "O", "N", "E">>, sCompleted,
      sX, <<"X">>, sTodo, <<"d", "o", "n", "e", "e">>, <<>> }

PTasks ==
    { Task("a", st, None, du, cd) : st \in Statuses, du \in OptDays, cd \in OptDays }

NoResult == [done |-> FALSE, due_today |-> FALSE, overdue |-> FALSE,
             completed_today |-> FALSE, overdue_listing |-> <<>>,
             overdue_count |-> 0, today_count |-> 0]

(***************************************************************************)
(* The file system an invocation sees: /v/Tasks and /v/Archive, each       *)
(* absent, a regular file, a directory that cannot be read, or a directory *)
(* whose files are listed in the order the walk yields them.               *)
(***************************************************************************)
TasksPath == <<"v", "Tasks">>
ArchivePath == <<"v", "Archive">>
RootPath == <<>>
VaultPaths == {TasksPath, ArchivePath, RootPath}

\* the YAML block of a note: the fields serde_yaml finds in it; a date
\* value of 0 is text that is no ISO calendar date
BadDate == 0
Yaml(st, dc, du, cd) ==
    [status |-> st, dateCreated |-> dc, due |-> du, completedDate |-> cd]

FmText == Marker \o <<"\n", "y", "\n">> \o Marker \o <<"\n", "b", "\n">>
NoFmText == <<"b", "\n">> \o Marker \o <<"\n">>
OpenFmText == Marker \o <<"\n", "y", "\n">>

extMd == <<"m", "d">>
extMD == <<"M", "D">>
extTxt == <<"t", "x", "t">>

File(stem, utf8, ext, readable, text, yaml) ==
    [stem |-> stem, utf8 |-> utf8, ext |-> ext, readable |-> readable,
     text |-> text, yaml |-> yaml]

Note(stem, ext, yaml) == File(stem, TRUE, ext, TRUE, FmText, yaml)

yTodoDue1 == Yaml(Some(sTodo), None, Some(1), None)
yDoneDue1 == Yaml(Some(<<"D", "o", "n", "e">>), None, Some(1), Some(2))
yTodoDue2Created == Yaml(Some(sTodo), Some("c"), Some(2), None)
yNoStatus == Yaml(None, None, Some(1), None)
yBadDate == Yaml(Some(sTodo), None, Some(BadDate), None)

FileSet ==
    { Note("a", extMd, yTodoDue1),
      Note("a", extMd, yDoneDue1),
      Note("b", extMD, yDoneDue1),
      Note("a", extMd, yTodoDue2Created),
      Note("a", extMd, yNoStatus),
      Note("a", extMd, yBadDate),
      File("a", TRUE, extMd, FALSE, FmText, yTodoDue1),
      File("a", TRUE, extMd, TRUE, NoFmText, yTodoDue1),
      File("a", TRUE, extMd, TRUE, OpenFmText, yTodoDue1),
      File("a", TRUE, extTxt, TRUE, FmText, yTodoDue1),
      File("b", FALSE, extMd, TRUE, FmText, yTodoDue1) }

FileSeqs(n) == UNION { [1..k -> FileSet] : k \in 0..n }

Dir(kind, files) == [kind |-> kind, files |-> files]

Dirs(n) ==
    { Dir(k, <<>>) : k \in {"absent", "file", "noaccess"} }
      \cup { Dir("dir", fl) : fl \in FileSeqs(n) }

FileSystems ==
    { f \in [tasksDir : Dirs(MaxFiles), archiveDir : Dirs(MaxFiles)] :
        Len(f.tasksDir.files) + Len(f.archiveDir.files) <= MaxFiles }

\* Path::exists / Path::is_dir
Kind(f, p) ==
    CASE p = RootPath -> "dir"
      [] p = <<"v">> -> "dir"
      [] p = TasksPath -> f.tasksDir.kind
      [] p = ArchivePath -> f.archiveDir.kind
      [] OTHER -> "absent"

exists(f, p) == Kind(f, p) # "absent"
is_dir(f, p) == Kind(f, p) \in {"dir", "noaccess"}

\* WalkDir::new(p).follow_links(true).into_iter().filter_map(|e| e.ok()):
\* the files below p, recursively; a directory that cannot be read yields
\* only errors, which the filter drops
WalkDir(f, p) ==
    CASE p = TasksPath -> f.tasksDir.files
      [] p = ArchivePath -> f.archiveDir.files
      [] p = RootPath -> f.tasksDir.files \o f.archiveDir.files
      [] p = <<"v">> -> f.tasksDir.files \o f.archiveDir.files
      [] OTHER -> <<>>

\* Path::parent
parent(p) == IF p = <<>> THEN None ELSE Some(SubSeq(p, 1, Len(p) - 1))

\* faulty variant: the extension is not looked at
IsMdAnyExtension(file) == TRUE

\* the extension filter of scan_dir
IsMd(file) == to_lowercase(file.ext) = extMd

\* .filter(|e| extension, lowercased, == "md") over the walk
RECURSIVE FilterMd(_)
FilterMd(s) ==
    IF s = <<>> THEN <<>>
    ELSE IF IsMd(Head(s)) THEN <<Head(s)>> \o FilterMd(Tail(s))
    ELSE FilterMd(Tail(s))

(***************************************************************************)
(* parse_task_file                                                         *)
(***************************************************************************)
Ok(t) == [ok |-> TRUE, task |-> t, err |-> ""]
Err(e) == [ok |-> FALSE, task |-> Task("", <<>>, None, None, None), err |-> e]

\* faulty variant: status takes a default (the empty string) when it is missing
from_str_default_status(y) ==
    IF y.due # None /\ y.due[1] = BadDate THEN Err("Failed to parse YAML")
    ELSE IF y.completedDate # None /\ y.completedDate[1] = BadDate
         THEN Err("Failed to parse YAML")
    ELSE Ok(Task("", IF y.status = None THEN <<>> ELSE y.status[1],
                 y.dateCreated, y.due, y.completedDate))

\* serde_yaml::from_str::<Task>: status is required, the dates must parse
from_str(y) ==
    IF y.status = None THEN Err("Failed to parse YAML")
    ELSE IF y.due # None /\ y.due[1] = BadDate THEN Err("Failed to parse YAML")
    ELSE IF y.completedDate # None /\ y.completedDate[1] = BadDate
         THEN Err("Failed to parse YAML")
    ELSE Ok(Task("", y.status[1], y.dateCreated, y.due, y.completedDate))

file_stem(file) == IF file.utf8 THEN file.stem ELSE "unknown"

parse_task_file(file) ==
    IF ~file.readable THEN Err("Failed to read file")
    ELSE IF extract_frontmatter(file.text) = None THEN Err("No frontmatter found")
    ELSE LET r == from_str(file.yaml)
         IN  IF ~r.ok THEN r
             ELSE Ok([r.task EXCEPT !.filename = file_stem(file)])

(***************************************************************************)
(* scan_dir                                                                *)
(***************************************************************************)
\* the entries the loop of scan_dir visits
ScanEntries(f, p) ==
    IF ~exists(f, p) \/ ~is_dir(f, p) THEN <<>>
    ELSE FilterMd(WalkDir(f, p))

SameIdentity(t, u) ==
    t.filename = u.filename /\ t.date_created = u.date_created

\* faulty variant: every parsed task is pushed
VisitWithoutDedup(ts, file) ==
    LET r == parse_task_file(file)
    IN  IF r.ok THEN Append(ts, r.task) ELSE ts

\* the body of the loop: tasks after visiting one entry
Visit(ts, file) ==
    LET r == parse_task_file(file)
    IN  IF r.ok
        THEN IF ~(\E i \in 1..Len(ts) : SameIdentity(ts[i], r.task))
             THEN Append(ts, r.task)
             ELSE ts
        ELSE ts

(***************************************************************************)
(* collect_tasks: the sibling Archive directory scanned after the root     *)
(***************************************************************************)
\* faulty variant: the sibling is looked for only when the root itself is a directory
archive_sibling_requires_root(f, vp) ==
    LET par == parent(vp)
    IN  IF par = None \/ ~exists(f, vp) \/ ~is_dir(f, vp) THEN None
        ELSE LET sib == Append(par[1], "Archive")
             IN  IF exists(f, sib) /\ sib # vp THEN Some(sib) ELSE None

\* Some(parent.join("Archive")) when it is to be scanned, None otherwise
archive_sibling(f, vp) ==
    LET par == parent(vp)
    IN  IF par = None THEN None
        ELSE LET sib == Append(par[1], "Archive")
             IN  IF exists(f, sib) /\ sib # vp THEN Some(sib) ELSE None

(***************************************************************************)
(* main: the command dispatch                                              *)
(***************************************************************************)
Listing(n) == [name |-> n, today |-> FALSE, overdue |-> FALSE, completed_today |-> FALSE]
Count(t, o, c) == [name |-> "count", today |-> t, overdue |-> o, completed_today |-> c]

Commands ==
    { Listing(n) : n \in {"all", "today", "overdue", "pending", "completed_today"} }
      \cup { Count(t, o, c) : t \in BOOLEAN, o \in BOOLEAN, c \in BOOLEAN }

NoCommand == Listing("none")

\* faulty variant: pending without its negation
SelectsPendingInverted(sel, t, now) ==
    CASE sel = "all" -> TRUE
      [] sel = "today" -> is_due_today(t, now)
      [] sel = "overdue" -> is_overdue(t, now)
      [] sel = "pending" -> is_done(t)
      [] sel = "completed_today" -> is_completed_today(t, now)

\* the closures given to filter
Selects(sel, t, now) ==
    CASE sel = "all" -> TRUE
      [] sel = "today" -> is_due_today(t, now)
      [] sel = "overdue" -> is_overdue(t, now)
      [] sel = "pending" -> ~is_done(t)
      [] sel = "completed_today" -> is_completed_today(t, now)

\* tasks.iter().filter(..).collect()
RECURSIVE FilterTasks(_, _, _)
FilterTasks(ts, sel, now) ==
    IF ts = <<>> THEN <<>>
    ELSE IF Selects(sel, Head(ts), now)
         THEN <<Head(ts)>> \o FilterTasks(Tail(ts), sel, now)
         ELSE FilterTasks(Tail(ts), sel, now)

\* faulty variant: overdue tested before today
CountSelectorOverdueFirst(cmd) ==
    IF cmd.overdue THEN "overdue"
    ELSE IF cmd.today THEN "today"
    ELSE IF cmd.completed_today THEN "completed_today"
    ELSE "pending"

\* the if / else-if chain of Commands::Count
CountSelector(cmd) ==
    IF cmd.today THEN "today"
    ELSE IF cmd.overdue THEN "overdue"
    ELSE IF cmd.completed_today THEN "completed_today"
    ELSE "pending"

Printed(kind, list, count) == [kind |-> kind, list |-> list, count |-> count]
NoOutput == Printed("none", <<>>, 0)

\* the match of main: what println! writes
Run(cmd, ts, now) ==
    IF cmd.name = "count"
    THEN Printed("count", <<>>, Len(FilterTasks(ts, CountSelector(cmd), now)))
    ELSE Printed("list", FilterTasks(ts, cmd.name, now), 0)

(***************************************************************************)
(* Specification of one invocation of the program                          *)
(***************************************************************************)
ExtractIdle == content = <<>> /\ result = None /\ epc = "idle"
PredIdle ==
    /\ ptask = Task("a", sTodo, None, None, None)
    /\ ptoday = 1
    /\ pres = NoResult
    /\ ppc = "idle"
MainIdle ==
    /\ vault_path = TasksPath
    /\ fs = [tasksDir |-> Dir("absent", <<>>), archiveDir |-> Dir("absent", <<>>)]
    /\ pc = "idle"
    /\ entries = <<>>
    /\ tasks = <<>>
    /\ command = NoCommand
    /\ today = 1
    /\ output = NoOutput
    /\ outcome = "running"

Init ==
    /\ ExtractIdle
    /\ PredIdle
    /\ vault_path \in VaultPaths
    /\ fs \in FileSystems
    /\ pc = "start"
    /\ entries = <<>>
    /\ tasks = <<>>
    /\ command = NoCommand
    /\ today = 1
    /\ output = NoOutput
    /\ outcome = "running"

\* collect_tasks: Vec::new() and the call scan_dir(vault_path, ..) up to its loop
ScanRoot ==
    /\ pc = "start"
    /\ tasks' = <<>>
    /\ entries' = ScanEntries(fs, vault_path)
    /\ pc' = "scan_root"
    /\ UNCHANGED <<vault_path, fs, command, today, output, outcome>>
    /\ UNCHANGED <<extractVars, predVars>>

\* scan_dir: one iteration of the loop
ScanEntry ==
    /\ pc \in {"scan_root", "scan_archive"}
    /\ entries # <<>>
    /\ tasks' = Visit(tasks, Head(entries))
    /\ entries' = Tail(entries)
    /\ UNCHANGED <<vault_path, fs, pc, command, today, output, outcome>>
    /\ UNCHANGED <<extractVars, predVars>>

\* collect_tasks: the root scan is over; the sibling Archive, if any, is next
ScanArchive ==
    /\ pc = "scan_root"
    /\ entries = <<>>
    /\ LET sib == archive_sibling(fs, vault_path)
       IN  IF sib # None
           THEN entries' = ScanEntries(fs, sib[1]) /\ pc' = "scan_archive"
           ELSE entries' = entries /\ pc' = "collected"
    /\ UNCHANGED <<vault_path, fs, tasks, command, today, output, outcome>>
    /\ UNCHANGED <<extractVars, predVars>>

\* collect_tasks: Ok(tasks)
Collected ==
    /\ pc = "scan_archive"
    /\ entries = <<>>
    /\ pc' = "collected"
    /\ UNCHANGED <<vault_path, fs, entries, tasks, command, today, output, outcome>>
    /\ UNCHANGED <<extractVars, predVars>>

\* main: the match on cli.command, println! and Ok(()); the command is read
\* here first, and now is the local date the predicates read
Dispatch(cmd, now) ==
    /\ pc = "collected"
    /\ command' = cmd
    /\ today' = now
    /\ output' = Run(cmd, tasks, now)
    /\ outcome' = "ok"
    /\ pc' = "done"
    /\ UNCHANGED <<vault_path, fs, entries, tasks>>
    /\ UNCHANGED <<extractVars, predVars>>

Todays == {2, 3}

Next ==
    \/ ScanRoot
    \/ ScanEntry
    \/ ScanArchive
    \/ Collected
    \/ \E cmd \in Commands, now \in Todays : Dispatch(cmd, now)

Spec == Init /\ [][Next]_vars

(***************************************************************************)
(* Specification of extract_frontmatter on every text of Contents          *)
(***************************************************************************)
InitExtract ==
    /\ content \in Contents
    /\ result = None
    /\ epc = "call"
    /\ PredIdle
    /\ MainIdle

Extract ==
    /\ epc = "call"
    /\ result' = extract_frontmatter(content)
    /\ epc' = "ret"
    /\ UNCHANGED <<content, predVars, mainVars>>

NextExtract == Extract

SpecExtract == InitExtract /\ [][NextExtract]_vars

(***************************************************************************)
(* Specification of the predicates on every task of PTasks and every day   *)
(***************************************************************************)
InitPred ==
    /\ ptask \in PTasks
    /\ ptoday \in Days
    /\ pres = NoResult
    /\ ppc = "call"
    /\ ExtractIdle
    /\ MainIdle

\* the predicates on ptask, and main's overdue listing and its two date
\* counts on the one-task collection <<ptask>>, all on the same day
Evaluate ==
    /\ ppc = "call"
    /\ pres' = [done |-> is_done(ptask),
                due_today |-> is_due_today(ptask, ptoday),
                overdue |-> is_overdue(ptask, ptoday),
                completed_today |-> is_completed_today(ptask, ptoday),
                overdue_listing |-> Run(Listing("overdue"), <<ptask>>, ptoday).list,
                overdue_count |-> Run(Count(FALSE, TRUE, FALSE), <<ptask>>, ptoday).count,
                today_count |-> Run(Count(TRUE, FALSE, FALSE), <<ptask>>, ptoday).count]
    /\ ppc' = "ret"
    /\ UNCHANGED <<ptask, ptoday, extractVars, mainVars>>

NextPred == Evaluate

SpecPred == InitPred /\ [][NextPred]_vars

(***************************************************************************)
(* Claims about extract_frontmatter (SpecExtract)                          *)
(***************************************************************************)
Min(S) == CHOOSE x \in S : \A y \in S : x <= y

\* the lines joined by single newlines, built from the last line backwards
RECURSIVE JoinedBackwards(_)
JoinedBackwards(ls) ==
    IF ls = <<>> THEN <<>>
    ELSE IF Len(ls) = 1 THEN ls[1]
    ELSE JoinedBackwards(SubSeq(ls, 1, Len(ls) - 1)) \o <<"\n">> \o ls[Len(ls)]

ExampleText ==
    Marker \o <<"\n", "a", "\n", "b", "\n">> \o Marker \o <<"\n", "a">>
ExampleBlock == <<"a", "\n", "b">>

\* C1: extract_frontmatter returns absent when the text has no lines, when
\* its first line is not exactly `---`, or when no later line equals `---`;
\* otherwise it returns the lines strictly between line 0 and the FIRST
\* later line equal to `---`, joined by single newlines, whatever follows
\* (so `---\nA\nB\n---\ntrailer` gives `A\nB`).
C1_ExtractContract ==
    epc = "ret" =>
        LET lines == Lines(content)
            closing == { k \in 2..Len(lines) : lines[k] = Marker }
        IN  /\ IF lines = <<>> \/ lines[1] # Marker \/ closing = {}
               THEN result = None
               ELSE result = Some(JoinedBackwards(SubSeq(lines, 2, Min(closing) - 1)))
            /\ content = ExampleText => result = Some(ExampleBlock)

C1_Witness ==
    /\ epc = "ret"
    /\ content = ExampleText
    /\ result = Some(ExampleBlock)

\* the text cut at every "\n" and nowhere else, nothing removed from the
\* pieces; terminated[k] tells whether piece k was followed by a "\n"
RECURSIVE RawFrom(_, _)
RawFrom(s, cur) ==
    IF s = <<>>
    THEN IF cur = <<>> THEN <<>> ELSE <<[line |-> cur, terminated |-> FALSE]>>
    ELSE IF Head(s) = "\n"
         THEN <<[line |-> cur, terminated |-> TRUE]>> \o RawFrom(Tail(s), <<>>)
         ELSE RawFrom(Tail(s), Append(cur, Head(s)))

RawLines(s) == RawFrom(s, <<>>)

TrailingWhitespace == {" ", "\t", "\r"}
MarkerThenWhitespace == { Marker \o <<w>> : w \in TrailingWhitespace }

\* C8 as stated: `---` followed by a space, a tab or a carriage return is
\* never a marker: such a first line makes the result absent, and such a
\* later line never closes the block.
C8_Original ==
    epc = "ret" =>
        LET raw == RawLines(content)
        IN  /\ (raw # <<>> /\ raw[1].line \in MarkerThenWhitespace) => result = None
            /\ (\A k \in 2..Len(raw) : raw[k].line # Marker) => result = None

\* what line splitting makes a `---` line of
IsMarkerLine(r) ==
    \/ r.line = Marker
    \/ r.line = Marker \o <<"\r">> /\ r.terminated

\* C8 amended: a line is a marker exactly when it is `---`, or `---`
\* followed by a carriage return that the line feed ending the line
\* follows at once (line splitting takes that carriage return away with the
\* line feed); `---` followed by a space, by a tab or by a carriage return
\* with no line feed after it is not a marker.  The result is present
\* exactly when the first line and some later line are markers.
C8_MarkerMatching ==
    epc = "ret" =>
        LET raw == RawLines(content)
        IN  result # None <=>
                /\ raw # <<>>
                /\ IsMarkerLine(raw[1])
                /\ \E k \in 2..Len(raw) : IsMarkerLine(raw[k])

CrLfText == Marker \o <<"\r", "\n", "a", "\n">> \o Marker \o <<"\r", "\n">>

C8_Witness ==
    /\ epc = "ret"
    /\ content = CrLfText
    /\ result = Some(<<"a">>)

(***************************************************************************)
(* Claims about the predicates (SpecPred)                                  *)
(***************************************************************************)
\* the statuses of Statuses that lowercase to `done`, `completed` or `x`
DoneStatuses ==
    { sDone, <<"D", "o", "n", "e">>, <<"D", "O", "N", "E">>, sCompleted, sX, <<"X">> }

\* C2: is_overdue(t) holds iff t.due is present, strictly before today, and
\* t is not done; a task whose status lowercases to `done`, `completed` or
\* `x` is never overdue, is not in the `overdue` listing and is not counted
\* by `count --overdue`.
C2_OverdueContract ==
    ppc = "ret" =>
        /\ pres.done <=> ptask.status \in DoneStatuses
        /\ pres.overdue <=>
               /\ \E d \in Days : ptask.due = Some(d) /\ d < ptoday
               /\ ptask.status \notin DoneStatuses
        /\ ptask.status \in DoneStatuses =>
               /\ ~pres.overdue
               /\ pres.overdue_listing = <<>>
               /\ pres.overdue_count = 0

\* a done task due before today
C2_Witness ==
    /\ ppc = "ret"
    /\ ptask.status = <<"D", "O", "N", "E">>
    /\ ptask.due = Some(1)
    /\ ptoday = MaxDay
    /\ ~pres.overdue
    /\ pres.overdue_count = 0

\* C9: is_due_today and is_overdue never both hold of one task on one day:
\* a task due today is not overdue, and no task is counted by both
\* `count --today` and `count --overdue`.
C9_DueTodayExcludesOverdue ==
    ppc = "ret" =>
        /\ ~(pres.due_today /\ pres.overdue)
        /\ ptask.due = Some(ptoday) => pres.due_today /\ ~pres.overdue
        /\ ~(pres.today_count = 1 /\ pres.overdue_count = 1)

\* a pending task due today
C9_Witness ==
    /\ ppc = "ret"
    /\ ptask.status = sTodo
    /\ ptask.due = Some(ptoday)
    /\ pres.due_today
    /\ pres.today_count = 1
    /\ pres.overdue_count = 0

(***************************************************************************)
(* Claims about the collector and the dispatch (Spec)                      *)
(***************************************************************************)
IsDone(t) == t.status \in DoneStatuses
IsDueOn(t, d) == t.due = Some(d)
IsOverdueOn(t, d) == ~IsDone(t) /\ \E x \in 1..(d - 1) : t.due = Some(x)
IsCompletedOn(t, d) == t.completed_date = Some(d)

Satisfies(sel, t, d) ==
    CASE sel = "all" -> TRUE
      [] sel = "today" -> IsDueOn(t, d)
      [] sel = "overdue" -> IsOverdueOn(t, d)
      [] sel = "pending" -> ~IsDone(t)
      [] sel = "completed_today" -> IsCompletedOn(t, d)

NumberOf(sel) ==
    Cardinality({ i \in 1..Len(tasks) : Satisfies(sel, tasks[i], today) })

\* the root as given on the command line
RootKind ==
    CASE vault_path = TasksPath -> fs.tasksDir.kind
      [] vault_path = ArchivePath -> fs.archiveDir.kind
      [] vault_path = RootPath -> "dir"

\* the files below the root, and those of the directory named Archive next
\* to the root when that is another directory than the root
RootFiles ==
    CASE vault_path = TasksPath -> fs.tasksDir.files
      [] vault_path = ArchivePath -> fs.archiveDir.files
      [] vault_path = RootPath -> fs.tasksDir.files \o fs.archiveDir.files

SiblingFiles == IF vault_path = TasksPath THEN fs.archiveDir.files ELSE <<>>

HasMdExtension(file) == file.ext \in {extMd, extMD}

\* a note that parses: readable, a closed frontmatter block, a status, and
\* no malformed date
ValidNote(file) ==
    /\ HasMdExtension(file)
    /\ file.readable
    /\ file.text = FmText
    /\ file.yaml.status # None
    /\ file.yaml.due # Some(BadDate)
    /\ file.yaml.completedDate # Some(BadDate)

TaskOf(file) ==
    Task(IF file.utf8 THEN file.stem ELSE "unknown", file.yaml.status[1],
         file.yaml.dateCreated, file.yaml.due, file.yaml.completedDate)

ParsedOf(files) ==
    LET valid == SelectSeq(files, ValidNote)
    IN  [i \in 1..Len(valid) |-> TaskOf(valid[i])]

RECURSIVE Ascending(_)
Ascending(S) == IF S = {} THEN <<>> ELSE <<Min(S)>> \o Ascending(S \ {Min(S)})

\* of every identity, the first task that has it, in the order of ps
FirstOccurrences(ps) ==
    LET keep == { i \in 1..Len(ps) :
                    \A j \in 1..(i - 1) : ~SameIdentity(ps[j], ps[i]) }
        idx == Ascending(keep)
    IN  [n \in 1..Len(idx) |-> ps[idx[n]]]

Traversal == RootFiles \o SiblingFiles

IsPrefix(s, t) == Len(s) <= Len(t) /\ SubSeq(t, 1, Len(s)) = s

\* what C3 says of one state of the collection
C3_StatePart ==
    /\ \A i, j \in 1..Len(tasks) :
           i # j => ~(tasks[i].filename = tasks[j].filename
                      /\ tasks[i].date_created = tasks[j].date_created)
    /\ pc \in {"collected", "done"} =>
           LET ps == ParsedOf(Traversal)
           IN  \A i \in 1..Len(tasks) :
                   /\ \E k \in 1..Len(ps) : SameIdentity(ps[k], tasks[i])
                   /\ tasks[i] =
                        ps[Min({ k \in 1..Len(ps) : SameIdentity(ps[k], tasks[i]) })]

\* C3: the collected list never holds two tasks with equal filename and
\* equal dateCreated (two absent ones are equal); the task kept for an
\* identity is the first one met in traversal order, root before sibling
\* Archive; and a later file never replaces, removes or reorders a task
\* already collected: the list only grows at its end.
C3_Dedup == []C3_StatePart /\ [][IsPrefix(tasks, tasks')]_vars

\* the root holds a note and the sibling Archive another one with the same
\* identity and other fields: only the root's is collected
C3_Witness ==
    /\ pc = "collected"
    /\ vault_path = TasksPath
    /\ fs.tasksDir.files = <<Note("a", extMd, yTodoDue1)>>
    /\ fs.archiveDir.files = <<Note("a", extMd, yDoneDue1)>>
    /\ tasks = <<Task("a", sTodo, None, Some(1), None)>>

\* C4: a file that cannot be read, has no frontmatter block, lacks status
\* or has a malformed date is skipped; nothing fails, and the collected list
\* is exactly the notes that parse, first of each identity, in traversal
\* order.
C4_Resilience ==
    /\ outcome # "failure"
    /\ pc \in {"collected", "done"} => tasks = FirstOccurrences(ParsedOf(Traversal))

\* a directory with an invalid note before a valid one
C4_Witness ==
    /\ pc = "collected"
    /\ vault_path = TasksPath
    /\ fs.tasksDir.files = <<Note("a", extMd, yNoStatus), Note("a", extMd, yTodoDue1)>>
    /\ fs.archiveDir.kind = "absent"
    /\ tasks = <<Task("a", sTodo, None, Some(1), None)>>

\* C5: `count` applies one selector, by precedence due-today, overdue,
\* completed-today, pending; the number printed is that selector's count.
C5_CountPrecedence ==
    (pc = "done" /\ command.name = "count") =>
        /\ output.kind = "count"
        /\ command.today => output.count = NumberOf("today")
        /\ (~command.today /\ command.overdue) => output.count = NumberOf("overdue")
        /\ (~command.today /\ ~command.overdue /\ command.completed_today) =>
               output.count = NumberOf("completed_today")
        /\ (~command.today /\ ~command.overdue /\ ~command.completed_today) =>
               output.count = NumberOf("pending")

\* all three flags set, and the four selectors do not count the same
C5_Witness ==
    /\ pc = "done"
    /\ command = Count(TRUE, TRUE, TRUE)
    /\ output.count = 0
    /\ NumberOf("overdue") = 1
    /\ NumberOf("completed_today") = 1
    /\ NumberOf("pending") = 1

RootIsDirWithoutMd ==
    /\ RootKind = "dir"
    /\ \A i \in 1..Len(RootFiles) : ~HasMdExtension(RootFiles[i])

\* C6 as stated: a root directory that exists and holds no `.md` file gives
\* `[]` for `all` and `0` for `count` without flags, whatever exists outside
\* the root.
C6_Original ==
    (pc = "done" /\ RootIsDirWithoutMd) =>
        /\ command = Listing("all") => output = Printed("list", <<>>, 0)
        /\ command = Count(FALSE, FALSE, FALSE) => output = Printed("count", <<>>, 0)

\* C6 amended: for such a root, `all` outputs exactly the tasks collected
\* from the directory named Archive next to the root (none when it is
\* absent, is the root itself or holds no note that parses), and `count`
\* without flags the number of those that are not done; nothing else
\* outside the root matters.
C6_EmptyRoot ==
    (pc = "done" /\ RootIsDirWithoutMd) =>
        LET archived == FirstOccurrences(ParsedOf(SiblingFiles))
            pending == { i \in 1..Len(archived) : ~IsDone(archived[i]) }
        IN  /\ command = Listing("all") => output = Printed("list", archived, 0)
            /\ command = Count(FALSE, FALSE, FALSE) =>
                   output = Printed("count", <<>>, Cardinality(pending))

\* an empty root next to an Archive directory that holds a note
C6_Witness ==
    /\ pc = "done"
    /\ vault_path = TasksPath
    /\ fs.tasksDir = Dir("dir", <<>>)
    /\ fs.archiveDir.files = <<Note("a", extMd, yTodoDue1)>>
    /\ command = Listing("all")
    /\ output.list = <<Task("a", sTodo, None, Some(1), None)>>

RootInaccessible == RootKind \in {"absent", "file", "noaccess"}

C10_ListingAndCount ==
    pc = "done" =>
        LET Wanted(t) == Satisfies(command.name, t, today)
            listed(sel) == Run(Listing(sel), tasks, today).list
        IN  /\ command.name # "count" =>
                   output = Printed("list", SelectSeq(tasks, Wanted), 0)
            /\ command = Count(TRUE, FALSE, FALSE) =>
                   output.count = Len(listed("today"))
            /\ command = Count(FALSE, TRUE, FALSE) =>
                   output.count = Len(listed("overdue"))
            /\ command = Count(FALSE, FALSE, TRUE) =>
                   output.count = Len(listed("completed_today"))
            /\ command = Count(FALSE, FALSE, FALSE) =>
                   output.count = Len(listed("pending"))

\* a todo task and a done task, both due yesterday: `overdue` lists the
\* todo task alone
C10_Witness ==
    /\ pc = "done"
    /\ today = 2
    /\ tasks = <<Task("a", sTodo, None, Some(1), None),
                 Task("b", <<"D", "o", "n", "e">>, None, Some(1), Some(2))>>
    /\ command = Listing("overdue")
    /\ output.list = <<Task("a", sTodo, None, Some(1), None)>>

====
